---- MODULE Spec2Model ----
(***************************************************************************)
(* A model of splitter_core.py: write_split_files (parse, plan, emit) and  *)
(* validate_split_files (syntax stage, import stage, structural stage).    *)
(*                                                                         *)
(* A file is a sequence of top-level statements ("items"), one item per    *)
(* source span: the line array of the code is the item sequence, a         *)
(* declaration's (start, end) span is the index of its item, and           *)
(* extract_code returns the sub-sequence of a span.                        *)
(***************************************************************************)
EXTENDS Integers, Sequences, FiniteSets, TLC

VARIABLES
    input,      \* arguments and environment of the run (never changes)
    pc,         \* position in write_split_files / validate_split_files
    fs,         \* file system: path -> file content, defined on existing files
    dirs,       \* directories created by the run
    loc,        \* locals of write_split_files: config, lines, class_used
    wlog,       \* paths written by write_file, in order
    report,     \* validation_results of validate_split_files
    stages,     \* validation stages entered, in order
    vres,       \* results of the three stages: syntax, imports, functionality
    sysModules, \* sys.modules: set of registered module names
    tmpDirs     \* temporary directories that exist

vars == <<input, pc, fs, dirs, loc, wlog, report, stages, vres, sysModules, tmpDirs>>

(***************************************************************************)
(* Bounds of the model.                                                    *)
(***************************************************************************)
MaxDecls == 2        \* top-level declarations in the input file
MaxEdges == 2        \* names read by declarations / top-level code
MaxPlacements == 2   \* names listed in the grouping config

(***************************************************************************)
(* Names.                                                                  *)
(***************************************************************************)
Base == "mod"                        \* the input file is mod.py
ClassPool == {"A", "B", "main"}      \* names of top-level classes
FuncPool == {"f"}                    \* names of top-level functions
NamePool == ClassPool \cup FuncPool
GhostName == "Z"                     \* a name no source declares
GroupPool == {"core", "main", "mod"} \* group names of a config
KindOf(n) == IF n \in FuncPool THEN "func" ELSE "class"

\* a fixed total order on names, used where the code iterates a set or a dict
Rank(n) ==
    CASE n = "A" -> 1 [] n = "B" -> 2 [] n = "main" -> 3 [] n = "f" -> 4
      [] n = "Z" -> 5 [] n = "core" -> 6 [] n = "mod" -> 7 [] n = "my-grp" -> 8
      [] n = "functions" -> 9 [] n = "__init__" -> 10 [] n = "util" -> 11
      [] OTHER -> 12

RECURSIVE SetToSeq(_)
SetToSeq(S) ==
    IF S = {} THEN <<>>
    ELSE LET m == CHOOSE x \in S : \A y \in S : Rank(x) <= Rank(y)
         IN <<m>> \o SetToSeq(S \ {m})

Range(s) == {s[i] : i \in 1..Len(s)}

Idx(n) == [i \in 1..n |-> i]
MapSeq(s, Op(_)) == [i \in 1..Len(s) |-> Op(s[i])]
\* the sequence of Op(i) for the indices i of 1..n that satisfy Test(i)
MapIdx(n, Test(_), Op(_)) == MapSeq(SelectSeq(Idx(n), Test), Op)

RECURSIVE Flatten(_)
Flatten(ss) == IF ss = <<>> THEN <<>> ELSE Head(ss) \o Flatten(Tail(ss))

(***************************************************************************)
(* Items of a file.                                                        *)
(*   doc      the module docstring of the input, kind = how it is quoted   *)
(*   import   a top-level import of the input; kind is what the import     *)
(*            does when executed: "std" (module already loaded), "fresh"   *)
(*            (loads a module not loaded before), "missing" (raises        *)
(*            ModuleNotFoundError), "parent" (from ..x import y)           *)
(*   decl     a top-level class or function; reads = names in Load         *)
(*            context, stores = names in Store context                     *)
(*   stmt     any other top-level statement; reads = names in Load context *)
(*   rel      a synthesized "from .<name> import <names>"                  *)
(*   iface    a synthesized "from .<Base>.<name> import <names>"           *)
(*   comment  the synthesized explanatory docstring of the residual file   *)
(*   ifdoc    the docstring of the interface file                          *)
(*   all      __all__ = [<names>]                                          *)
(*   bad      text that does not parse                                     *)
(*   disabled a line commented out by the sandbox rewrite                  *)
(* A stmt of kind "quote" is a statement that mentions a parent-relative   *)
(* import in a string.                                                     *)
(***************************************************************************)
Item(t, name, kind, reads, names) ==
    [t |-> t, name |-> name, kind |-> kind, reads |-> reads, names |-> names, stores |-> {}]

\* form: how the docstring is written: "dq3" = """...""", "sq3" = '''...''',
\* "q1" = "..." or '...' on one line
DocItem(form) == Item("doc", "", form, {}, <<>>)
ImportItem(m, k) == Item("import", m, k, {}, <<>>)
DeclItem(n, rd) == Item("decl", n, KindOf(n), rd, <<>>)
\* a declaration that also assigns to the names st (Name nodes in Store context)
AssigningDecl(n, rd, st) == [DeclItem(n, rd) EXCEPT !.stores = st]
StmtItem(rd) == Item("stmt", "", "", rd, <<>>)
\* a top-level statement that is no import and whose line holds the text
\* "from ..core", as in HELP = "use: from ..core import x"
QuoteItem == Item("stmt", "", "quote", {}, <<>>)
RelItem(m, ns) == Item("rel", m, "", {}, ns)
IfaceItem(m, ns) == Item("iface", m, "", {}, ns)
CommentItem == Item("comment", "", "", {}, <<>>)
IfDocItem == Item("ifdoc", "", "", {}, <<>>)
AllItem(ns) == Item("all", "", "", {}, ns)
BadItem == Item("bad", "", "", {}, <<>>)
Star == <<"*">>

(***************************************************************************)
(* Paths.  The input is <in>/mod.py; the output directory is either        *)
(* another directory or the directory of the input.  Files of the split    *)
(* folder <output_dir>/mod are named by their stem (A for A.py).           *)
(***************************************************************************)
CodePath == <<"in", Base>>
BackupPath == <<"in", "mod.backup">>
OutDir == IF input.outSame THEN "in" ELSE "out"
InterfacePath == <<OutDir, Base>>
Folder == "pkg"
FolderPath(stem) == <<Folder, stem>>

Exists(p) == p \in DOMAIN fs
Written(f, p, content) == [q \in DOMAIN f \cup {p} |-> IF q = p THEN content ELSE f[q]]
FolderFiles(f) == {p[2] : p \in {q \in DOMAIN f : q[1] = Folder}}

(***************************************************************************)
(* Parsing and analysis.                                                   *)
(***************************************************************************)
\* parse_script: None on a SyntaxError, else (code, lines, tree); the three
\* are the item sequence of the file
IsIdentifier(n) == n # "my-grp"
ParseFails(content) ==
    \E i \in 1..Len(content) :
        \/ content[i].t = "bad"
        \/ content[i].t \in {"rel", "iface"} /\ ~ IsIdentifier(content[i].name)
NoneT == <<Item("none", "", "", {}, <<>>)>>
\* a parse_script that lets a SyntaxError pass
parse_script_unchecked(content) == content
parse_script(content) == IF ParseFails(content) THEN NoneT ELSE content

IsClassDef(it) == it.t = "decl" /\ it.kind = "class"
IsFunctionDef(it) == it.t = "decl" /\ it.kind = "func"
IsImport(it) == it.t \in {"import", "rel", "iface"}

\* find_top_level_defs: (name, start, end) of every class, of every function
Def(tree, i) == [name |-> tree[i].name, start |-> i, end |-> i]
TopClasses(tree) ==
    MapIdx(Len(tree), LAMBDA i : IsClassDef(tree[i]), LAMBDA i : Def(tree, i))
TopFunctions(tree) ==
    MapIdx(Len(tree), LAMBDA i : IsFunctionDef(tree[i]), LAMBDA i : Def(tree, i))
NamesOf(defs) == MapSeq(defs, LAMBDA d : d.name)

extract_code(lines, start, end) == SubSeq(lines, start, end)

get_occupied_lines(defs) ==
    UNION {d.start .. d.end : d \in Range(defs)}

\* get_imports: the unparsed top-level Import / ImportFrom statements
get_imports(tree) == SelectSeq(tree, IsImport)

\* the Name nodes of the subtree of a statement: <<id, ctx>>
NameNodes(it) ==
    {<<n, "Load">> : n \in it.reads} \cup {<<n, "Store">> : n \in it.stores}
\* a collector that takes the id of every Name node
UsedNames_any(it) == {nd[1] : nd \in NameNodes(it)}
\* UsedNamesCollector: the ids of the Name nodes in Load context
UsedNames(it) == {nd[1] : nd \in {x \in NameNodes(it) : x[2] = "Load"}}

\* analyze_dependencies
ClassUsed(tree, class_names, function_names, c) ==
    LET used == UNION {UsedNames(tree[i]) :
                       i \in {j \in 1..Len(tree) : IsClassDef(tree[j]) /\ tree[j].name = c}}
    IN [uc |-> {n \in used : n \in class_names /\ n # c},
        uf |-> {n \in used : n \in function_names}]
FuncUsedClasses(tree, class_names) ==
    UNION {UsedNames(tree[i]) \cap class_names :
           i \in {j \in 1..Len(tree) : IsFunctionDef(tree[j])}}
TopUsed(tree) ==
    UNION {UsedNames(tree[i]) :
           i \in {j \in 1..Len(tree) : ~ (tree[j].t = "decl" \/ IsImport(tree[j]))}}

(***************************************************************************)
(* The grouping config.  The file named by config_path is absent, or holds *)
(* text: "badjson" (not JSON), "null", "falsy" ({} or []), "badshape" (a   *)
(* non-mapping, or a mapping whose modules / group values are not          *)
(* mappings) or "dict" (a mapping; modules = its groups in file order,     *)
(* each [name, classes, functions]).                                       *)
(***************************************************************************)
ConfigVal(v, modules) == [v |-> v, modules |-> modules]
NoConfig == ConfigVal("None", <<>>)

\* parse_config: None on FileNotFoundError / JSONDecodeError, else json.load
parse_config(cfgFile) ==
    IF cfgFile.text \in {"absent", "badjson", "null"} THEN NoConfig
    ELSE ConfigVal(cfgFile.text, cfgFile.modules)

Truthy(config) == config.v \in {"badshape", "dict"}
\* config.get("modules", {}) and the .get of its values raise AttributeError
GetRaises(config) == config.v = "badshape"

(***************************************************************************)
(* create_shrunk_original: the content of the residual file <base>.py      *)
(***************************************************************************)
\* a docstring extraction that copies the statement as it is written
ExtractModuleDocstring_verbatim(code) ==
    IF Len(code) > 0 /\ code[1].t = "doc" THEN <<code[1]>> ELSE <<>>
\* _extract_module_docstring: the value of the first statement, written
\* between """
ExtractModuleDocstring(code) ==
    IF Len(code) > 0 /\ code[1].t = "doc" THEN <<DocItem("dq3")>> ELSE <<>>

SplitClasses(config, class_names) ==
    IF Truthy(config)
    THEN UNION {Range(g.classes) : g \in Range(config.modules)}
    ELSE Range(class_names)
SplitFunctions(config, function_names) ==
    IF Truthy(config)
    THEN UNION {Range(g.functions) : g \in Range(config.modules)}
    ELSE Range(function_names)

Slices(lines, defs) == Flatten(MapSeq(defs, LAMBDA d : extract_code(lines, d.start, d.end)))

\* a residual file that keeps no declaration: always the minimal file
create_shrunk_original_minimal(code, lines, imports, classes, functions, config, class_names, function_names) ==
    (IF ExtractModuleDocstring(code) # <<>> THEN ExtractModuleDocstring(code) ELSE <<CommentItem>>)
    \o imports
    \o (IF Truthy(config)
        THEN MapSeq(config.modules, LAMBDA g : RelItem(g.name, Star))
        ELSE MapSeq(class_names, LAMBDA c : RelItem(c, <<c>>))
             \o (IF function_names # <<>>
                 THEN <<RelItem("functions", function_names)>> ELSE <<>>))
create_shrunk_original(code, lines, imports, classes, functions, config, class_names, function_names) ==
    LET split_classes == SplitClasses(config, class_names)
        split_functions == SplitFunctions(config, function_names)
        remaining_classes == SelectSeq(classes, LAMBDA d : d.name \notin split_classes)
        remaining_functions == SelectSeq(functions, LAMBDA d : d.name \notin split_functions)
        original_docstring == ExtractModuleDocstring(code)
        all_occupied == get_occupied_lines(classes \o functions)
        \* lines outside the declarations, without the lines of a string
        \* that starts with """ or ''' (lines 191-214)
        top_level_code ==
            MapIdx(Len(lines),
                   LAMBDA i : i \notin all_occupied
                              /\ lines[i].t \notin {"comment", "ifdoc"}
                              /\ ~ (lines[i].t = "doc" /\ lines[i].kind \in {"dq3", "sq3"}),
                   LAMBDA i : lines[i])
    IN IF remaining_classes = <<>> /\ remaining_functions = <<>>
       THEN (IF original_docstring # <<>> THEN original_docstring ELSE <<CommentItem>>)
            \o imports
            \o (IF Truthy(config)
                THEN MapSeq(config.modules, LAMBDA g : RelItem(g.name, Star))
                ELSE MapSeq(class_names, LAMBDA c : RelItem(c, <<c>>))
                     \o (IF function_names # <<>>
                         THEN <<RelItem("functions", function_names)>> ELSE <<>>))
       ELSE imports
            \o Slices(lines, remaining_classes)
            \o Slices(lines, remaining_functions)
            \o top_level_code

(***************************************************************************)
(* create_interface_file: the content of <output_dir>/<base>.py            *)
(***************************************************************************)
create_interface_file(class_names, function_names, config) ==
    <<IfDocItem>>
    \o (IF Truthy(config)
        THEN Flatten(MapSeq(config.modules,
                 LAMBDA g : IF g.classes # <<>> \/ g.functions # <<>>
                            THEN <<IfaceItem(g.name, g.classes \o g.functions)>>
                            ELSE <<>>))
        ELSE MapSeq(class_names, LAMBDA c : IfaceItem(c, <<c>>))
             \o (IF function_names # <<>>
                 THEN <<IfaceItem("functions", function_names)>> ELSE <<>>))
    \o (IF class_names \o function_names # <<>>
        THEN <<AllItem(class_names \o function_names)>> ELSE <<>>)

(***************************************************************************)
(* write_split_files                                                       *)
(***************************************************************************)
\* the locals computed at lines 761-768
L_imports == get_imports(loc.lines)
L_classes == TopClasses(loc.lines)
L_functions == TopFunctions(loc.lines)
L_class_names == NamesOf(L_classes)
L_function_names == NamesOf(L_functions)
L_occupied == get_occupied_lines(L_classes \o L_functions)
L_top_level_code ==
    MapIdx(Len(loc.lines), LAMBDA i : i \notin L_occupied, LAMBDA i : loc.lines[i])
L_class_used(c) == loc.class_used[c]
L_func_used == FuncUsedClasses(loc.lines, Range(L_class_names))
L_top_used_cls == {n \in TopUsed(loc.lines) : n \in Range(L_class_names)}
L_top_used_fn == {n \in TopUsed(loc.lines) : n \in Range(L_function_names)}

\* write_file for a sequence of <<path, content>>, in order
RECURSIVE WriteAll(_, _)
WriteAll(f, writes) ==
    IF writes = <<>> THEN f
    ELSE WriteAll(Written(f, Head(writes)[1], Head(writes)[2]), Tail(writes))
PathsOf(writes) == MapSeq(writes, LAMBDA w : w[1])

\* the source slice of the first definition named n (lines 794-797, 801-804)
FirstSlice(lines, defs, n) ==
    LET hits == SelectSeq(defs, LAMBDA d : d.name = n)
    IN IF hits = <<>> THEN <<>> ELSE extract_code(lines, hits[1].start, hits[1].end)

\* a group file that takes every class of the source, not those of the group
GroupContent_all(g) ==
    L_imports
    \o Slices(loc.lines, L_classes)
    \o Flatten(MapSeq(g.functions, LAMBDA fn : FirstSlice(loc.lines, L_functions, fn)))
\* a group file that gives up on the group when it lists an unknown name
GroupContent_strict(g) ==
    IF Range(g.classes) \subseteq Range(L_class_names)
       /\ Range(g.functions) \subseteq Range(L_function_names)
    THEN L_imports
         \o Flatten(MapSeq(g.classes, LAMBDA c : FirstSlice(loc.lines, L_classes, c)))
         \o Flatten(MapSeq(g.functions, LAMBDA fn : FirstSlice(loc.lines, L_functions, fn)))
    ELSE L_imports
\* config mode, lines 789-807: one file per group
GroupContent(g) ==
    L_imports
    \o Flatten(MapSeq(g.classes, LAMBDA c : FirstSlice(loc.lines, L_classes, c)))
    \o Flatten(MapSeq(g.functions, LAMBDA fn : FirstSlice(loc.lines, L_functions, fn)))
GroupWrites == MapSeq(loc.config.modules, LAMBDA g : <<FolderPath(g.name), GroupContent(g)>>)

\* default mode, lines 810-822: one file per class
ClassUnitImports(c) ==
    MapSeq(SetToSeq(L_class_used(c).uc), LAMBDA uc : RelItem(uc, <<uc>>))
    \o (IF L_class_used(c).uf # {}
        THEN <<RelItem("functions", SetToSeq(L_class_used(c).uf))>> ELSE <<>>)
ClassUnitContent(d) ==
    L_imports \o ClassUnitImports(d.name) \o extract_code(loc.lines, d.start, d.end)
ClassWrites == MapSeq(L_classes, LAMBDA d : <<FolderPath(d.name), ClassUnitContent(d)>>)

\* default mode, lines 824-834: the shared functions file
FunctionsUnitImports == MapSeq(SetToSeq(L_func_used), LAMBDA uc : RelItem(uc, <<uc>>))
FunctionsContent == L_imports \o FunctionsUnitImports \o Slices(loc.lines, L_functions)
FunctionsWrites ==
    IF L_functions # <<>> THEN << <<FolderPath("functions"), FunctionsContent>> >> ELSE <<>>

UnitWrites == IF Truthy(loc.config) THEN GroupWrites ELSE ClassWrites \o FunctionsWrites

\* lines 836-846: main.py
MainContent ==
    L_imports
    \o MapSeq(SetToSeq(L_top_used_cls), LAMBDA uc : RelItem(uc, <<uc>>))
    \o (IF L_top_used_fn # {} THEN <<RelItem("functions", SetToSeq(L_top_used_fn))>> ELSE <<>>)
    \o L_top_level_code
MainWrites ==
    IF L_top_level_code # <<>> THEN << <<FolderPath("main"), MainContent>> >> ELSE <<>>

\* lines 848-859: __init__.py
InitContent ==
    IF Truthy(loc.config)
    THEN MapSeq(loc.config.modules, LAMBDA g : RelItem(g.name, Star))
    ELSE MapSeq(L_class_names, LAMBDA c : RelItem(c, <<c>>))
         \o (IF L_function_names # <<>>
             THEN <<RelItem("functions", L_function_names)>> ELSE <<>>)

ResidualContent ==
    create_shrunk_original(loc.lines, loc.lines, L_imports, L_classes, L_functions,
                           loc.config, L_class_names, L_function_names)

Valid == <<report, stages, vres, sysModules, tmpDirs>>

\* lines 752-756
ReadConfig ==
    /\ pc = "start"
    /\ LET config == IF input.cfgPath THEN parse_config(input.cfgFile) ELSE NoConfig
       IN /\ loc' = [loc EXCEPT !.config = config]
          /\ pc' = IF input.cfgPath /\ config = NoConfig THEN "returned" ELSE "parse"
    /\ UNCHANGED <<input, fs, dirs, wlog, Valid>>

\* lines 758-768
ParseSource ==
    /\ pc = "parse"
    /\ LET result == parse_script(fs[CodePath])
       IN IF result = NoneT
          THEN pc' = "returned" /\ loc' = loc
          ELSE /\ pc' = "backup"
               /\ loc' = [loc EXCEPT
                     !.lines = result,
                     !.class_used =
                        LET cn == Range(NamesOf(TopClasses(result)))
                            fn == Range(NamesOf(TopFunctions(result)))
                        IN [c \in cn |-> ClassUsed(result, cn, fn, c)]]
    /\ UNCHANGED <<input, fs, dirs, wlog, Valid>>

\* lines 771-779: the backup copy and the split folder
Prepare ==
    /\ pc = "backup"
    /\ fs' = IF Exists(BackupPath) THEN fs ELSE Written(fs, BackupPath, fs[CodePath])
    /\ dirs' = dirs \cup {Folder}
    /\ pc' = "residual"
    /\ UNCHANGED <<input, loc, wlog, Valid>>

\* lines 781-785: the residual file; an AttributeError of config.get leaves
\* write_split_files
WriteResidual ==
    /\ pc = "residual"
    /\ IF GetRaises(loc.config)
       THEN pc' = "crashed" /\ UNCHANGED <<fs, wlog>>
       ELSE /\ fs' = Written(fs, FolderPath(Base), ResidualContent)
            /\ wlog' = Append(wlog, FolderPath(Base))
            /\ pc' = "units"
    /\ UNCHANGED <<input, dirs, loc, Valid>>

\* lines 787-834
WriteUnits ==
    /\ pc = "units"
    /\ fs' = WriteAll(fs, UnitWrites)
    /\ wlog' = wlog \o PathsOf(UnitWrites)
    /\ pc' = "main"
    /\ UNCHANGED <<input, dirs, loc, Valid>>

\* lines 836-846
WriteMain ==
    /\ pc = "main"
    /\ fs' = WriteAll(fs, MainWrites)
    /\ wlog' = wlog \o PathsOf(MainWrites)
    /\ pc' = "init"
    /\ UNCHANGED <<input, dirs, loc, Valid>>

\* lines 848-859
WriteInit ==
    /\ pc = "init"
    /\ fs' = Written(fs, FolderPath("__init__"), InitContent)
    /\ wlog' = Append(wlog, FolderPath("__init__"))
    /\ pc' = "interface"
    /\ UNCHANGED <<input, dirs, loc, Valid>>

\* lines 861-870: the interface file, then validate_split_files is entered
WriteInterface ==
    /\ pc = "interface"
    /\ fs' = Written(fs, InterfacePath,
                     create_interface_file(L_class_names, L_function_names, loc.config))
    /\ wlog' = Append(wlog, InterfacePath)
    /\ pc' = "v_syntax"
    /\ UNCHANGED <<input, dirs, loc, Valid>>

(***************************************************************************)
(* validate_split_files: the report and the three stages                   *)
(***************************************************************************)
\* an entry of an errors / warnings list: the stage that recorded it, what
\* it says, and the file or the names it is about
Msg(stage, kind, subj) == [stage |-> stage, kind |-> kind, subj |-> subj]

\* lines 259-267
InitialReport == [success |-> FALSE, errors |-> <<>>, warnings |-> <<>>, summary |-> ""]
NoResults == [ran |-> FALSE]

\* _validate_syntax (lines 318-358)
validate_syntax(f) ==
    LET files == FolderFiles(f)
        invalid == {x \in files : ParseFails(f[FolderPath(x)])}
    IN [ran |-> TRUE,
        all_valid |-> invalid = {},
        files_checked |-> files,
        valid_files |-> files \ invalid,
        invalid_files |-> invalid,
        errors |-> MapSeq(SetToSeq(invalid), LAMBDA x : Msg("syntax", "syntax_error", {x}))]

(***************************************************************************)
(* The sandbox of the import stage.                                        *)
(***************************************************************************)
TmpDir == "tmp"
SandboxPath(stem) == <<TmpDir, stem>>

\* lines 379-388: a line is commented out when it starts with "from .." or
\* "import .." or holds the text "from ..core" / "from ..models" anywhere
EscapesPackage(it) ==
    \/ it.t = "import" /\ it.kind = "parent"
    \/ it.t = "stmt" /\ it.kind = "quote"
FixLine(it) ==
    IF EscapesPackage(it) THEN Item("disabled", it.name, it.kind, {}, <<>>) ELSE it
FixedContent(content) == MapSeq(content, FixLine)

\* _create_test_version_with_fixed_imports (lines 361-398): copytree, then
\* every file of the copy is rewritten
SandboxCopy(f) ==
    LET stems == FolderFiles(f)
    IN [q \in DOMAIN f \cup {SandboxPath(x) : x \in stems} |->
            IF q[1] = TmpDir THEN FixedContent(f[FolderPath(q[2])]) ELSE f[q]]
WithoutSandbox(f) == [q \in {r \in DOMAIN f : r[1] # TmpDir} |-> f[q]]
Sandbox(f) ==
    [x \in {q[2] : q \in {r \in DOMAIN f : r[1] = TmpDir}} |-> f[SandboxPath(x)]]

(***************************************************************************)
(* sys.modules.  A module name is <<stem, rest>>: "mod" is <<"mod", "">>,  *)
(* "mod.A" is <<"mod", "A">>, "models" is <<"mod", "~els">>, "os" is       *)
(* <<"os", "">>, so that name.startswith("mod") is name[1] = "mod".        *)
(***************************************************************************)
ExtKey(m) == <<m, "">>
PkgKey == <<Base, "">>
SubKey(stem) == <<Base, stem>>
StartsWithBase(k) == k[1] = Base

(***************************************************************************)
(* Executing a module of the sandbox (spec.loader.exec_module and the      *)
(* imports it triggers).  The result is "ok", or the exception raised:     *)
(* "ImportError", "RelImportError" (an ImportError whose message contains  *)
(* "relative import") or "Exception"; fresh = the external modules that    *)
(* the executed import statements registered in sys.modules.               *)
(***************************************************************************)
Outcome(res, fresh, pkg) == [res |-> res, fresh |-> fresh, pkg |-> pkg]

RECURSIVE Provided(_, _, _)
\* the names bound in module y after it was executed
Provided(sb, y, seen) ==
    LET c == sb[y]
    IN UNION {IF c[i].t = "decl" THEN {c[i].name}
              ELSE IF c[i].t = "rel" /\ c[i].names # Star THEN Range(c[i].names)
              ELSE IF c[i].t = "rel" /\ c[i].name \in DOMAIN sb /\ c[i].name \notin seen
                   THEN Provided(sb, c[i].name, seen \cup {c[i].name})
              ELSE {} : i \in 1..Len(c)}

\* the names a statement binds in the module that executes it
Binds(sb, it) ==
    IF it.t = "decl" THEN {it.name}
    ELSE IF it.t = "rel" /\ it.names # Star THEN Range(it.names)
    ELSE IF it.t = "rel" /\ it.name \in DOMAIN sb THEN Provided(sb, it.name, {it.name})
    ELSE {}

RECURSIVE ExecItems(_, _, _, _, _)
\* pkgRes is the result of importing the parent package <base>, which the
\* first relative import of a module triggers; pkg = the package was imported;
\* bound = the names bound so far: a top-level statement that reads another
\* name raises NameError (the reads of a declaration are in its methods)
ExecItems(sb, items, stack, pkgRes, bound) ==
    IF items = <<>> THEN Outcome("ok", {}, FALSE)
    ELSE LET it == Head(items)
             step ==
                 CASE it.t = "import" /\ it.kind = "missing" -> Outcome("ImportError", {}, FALSE)
                   [] it.t = "import" /\ it.kind = "fresh" -> Outcome("ok", {ExtKey(it.name)}, FALSE)
                   [] it.t = "import" /\ it.kind = "parent" -> Outcome("RelImportError", {}, FALSE)
                   [] it.t = "bad" -> Outcome("Exception", {}, FALSE)
                   [] it.t = "stmt" ->
                        Outcome(IF UsedNames(it) \subseteq bound THEN "ok" ELSE "Exception", {}, FALSE)
                   [] it.t = "rel" ->
                        IF pkgRes # "ok" THEN Outcome(pkgRes, {}, FALSE)
                        ELSE IF it.name \in stack
                        THEN Outcome(IF it.names = Star THEN "ok" ELSE "ImportError", {}, TRUE)
                        ELSE IF it.name \notin DOMAIN sb THEN Outcome("ImportError", {}, TRUE)
                        ELSE LET r == ExecItems(sb, sb[it.name], stack \cup {it.name}, "ok", {})
                             IN IF r.res # "ok" THEN Outcome(r.res, r.fresh, TRUE)
                                ELSE IF it.names # Star
                                        /\ ~ (Range(it.names) \subseteq Provided(sb, it.name, {it.name}))
                                THEN Outcome("ImportError", r.fresh, TRUE)
                                ELSE Outcome("ok", r.fresh, TRUE)
                   [] OTHER -> Outcome("ok", {}, FALSE)
         IN IF step.res # "ok" THEN step
            ELSE LET rest == ExecItems(sb, Tail(items), stack, pkgRes, bound \cup Binds(sb, it))
                 IN Outcome(rest.res, step.fresh \cup rest.fresh, step.pkg \/ rest.pkg)

\* lines 423-431: the package initializer, loaded under the name <base>
LoadInit(sb) ==
    IF "__init__" \in DOMAIN sb THEN ExecItems(sb, sb["__init__"], {}, "ok", {})
    ELSE Outcome("Exception", {}, FALSE)
\* lines 450-460: one module, loaded under the name <base>.<module_name>
LoadFile(sb, x) == ExecItems(sb, sb[x], {x}, LoadInit(sb).res, {})
IndividualFiles(sb) == DOMAIN sb \ {"__init__"}

\* the names in sys.modules after the loads (lines 423-474): line 458
\* registers every module, the import system registers the package and the
\* external modules that were imported
ModulesAfterLoads(mods, sb) ==
    mods
    \cup {SubKey(x) : x \in IndividualFiles(sb)}
    \cup (IF LoadInit(sb).pkg \/ \E x \in IndividualFiles(sb) : LoadFile(sb, x).pkg
          THEN {PkgKey} ELSE {})
    \cup LoadInit(sb).fresh
    \cup UNION {LoadFile(sb, x).fresh : x \in IndividualFiles(sb)}

\* lines 476-484: the finally block
ModulesAfterCleanup(mods) == {k \in mods : ~ StartsWithBase(k)}

\* the messages of lines 435-442
InitWarnings(o) ==
    IF o.res = "RelImportError" THEN <<Msg("import", "expected_relative", {"__init__"})>>
    ELSE <<>>
InitErrors(o) ==
    IF o.res \notin {"ok", "RelImportError"}
    THEN <<Msg("import", "failed_import", {"__init__"})>> ELSE <<>>
\* the messages of lines 464-474
FileWarnings(x, o) ==
    IF o.res = "RelImportError" THEN <<Msg("import", "expected_relative", {x})>>
    ELSE IF o.res = "ImportError" THEN <<Msg("import", "import_warning", {x})>>
    ELSE <<>>
FileErrors(x, o) ==
    IF o.res = "Exception" THEN <<Msg("import", "failed_import", {x})>> ELSE <<>>

\* the results of _validate_imports when the loads were attempted
import_results(sb) ==
    LET io == LoadInit(sb)
        files == SetToSeq(IndividualFiles(sb))
        errors == InitErrors(io)
                  \o Flatten(MapSeq(files, LAMBDA x : FileErrors(x, LoadFile(sb, x))))
        warnings == InitWarnings(io)
                    \o Flatten(MapSeq(files, LAMBDA x : FileWarnings(x, LoadFile(sb, x))))
    IN [ran |-> TRUE,
        all_imports_successful |-> errors = <<>>,
        successful_imports |-> {x \in DOMAIN sb : IF x = "__init__" THEN io.res = "ok"
                                                  ELSE LoadFile(sb, x).res = "ok"},
        errors |-> errors,
        warnings |-> warnings]

\* lines 486-488: the sandbox could not be set up
import_setup_failed ==
    [ran |-> TRUE, all_imports_successful |-> FALSE, successful_imports |-> {},
     errors |-> <<Msg("import", "setup_error", {})>>, warnings |-> <<>>]

(***************************************************************************)
(* _validate_functionality (lines 493-605)                                 *)
(***************************************************************************)
\* lines 536-547: the names imported by __init__.py; "functions" in module
InitImportedNames(content, kind) ==
    UNION {IF content[i].t \in {"rel", "iface"} /\ content[i].names # Star
              /\ (kind = "func") = (content[i].name = "functions")
           THEN Range(content[i].names) ELSE {} : i \in 1..Len(content)}

\* lines 553-565: the declarations of every file but __init__, <base>, main
ScannedFiles(f) == FolderFiles(f) \ {"__init__", Base, "main"}
ScannedNames(f, kind) ==
    UNION {IF ParseFails(f[FolderPath(x)]) THEN {}
           ELSE Range(NamesOf(IF kind = "class" THEN TopClasses(f[FolderPath(x)])
                                                ELSE TopFunctions(f[FolderPath(x)])))
           : x \in ScannedFiles(f)}

EmittedNames(f, kind) ==
    (IF FolderPath("__init__") \in DOMAIN f /\ ~ ParseFails(f[FolderPath("__init__")])
     THEN InitImportedNames(f[FolderPath("__init__")], kind) ELSE {})
    \cup ScannedNames(f, kind)

\* lines 573-599
MissingErrors(missing_classes, missing_functions) ==
    (IF missing_classes # {}
     THEN <<Msg("struct", "missing_classes", missing_classes)>> ELSE <<>>)
    \o (IF missing_functions # {}
        THEN <<Msg("struct", "missing_functions", missing_functions)>> ELSE <<>>)
ExtraWarnings(orig_c, split_c, orig_f, split_f) ==
    (IF Cardinality(split_c) > Cardinality(orig_c)
     THEN <<Msg("struct", "extra_classes", split_c \ orig_c)>> ELSE <<>>)
    \o (IF Cardinality(split_f) > Cardinality(orig_f)
        THEN <<Msg("struct", "extra_functions", split_f \ orig_f)>> ELSE <<>>)

validate_functionality(f) ==
    LET original_result == parse_script(f[CodePath])
    IN IF original_result = NoneT
       THEN [ran |-> TRUE, classes_match |-> FALSE, functions_match |-> TRUE,
             errors |-> <<Msg("struct", "original_unparsable", {})>>, warnings |-> <<>>,
             original_classes |-> {}, original_functions |-> {},
             split_classes |-> {}, split_functions |-> {},
             missing_classes |-> {}, missing_functions |-> {}]
       ELSE LET orig_c == Range(NamesOf(TopClasses(original_result)))
                orig_f == Range(NamesOf(TopFunctions(original_result)))
                split_c == EmittedNames(f, "class")
                split_f == EmittedNames(f, "func")
                missing_c == orig_c \ split_c
                missing_f == orig_f \ split_f
            IN [ran |-> TRUE,
                classes_match |-> missing_c = {},
                functions_match |-> missing_f = {},
                errors |-> MissingErrors(missing_c, missing_f),
                warnings |-> ExtraWarnings(orig_c, split_c, orig_f, split_f),
                original_classes |-> orig_c, original_functions |-> orig_f,
                split_classes |-> split_c, split_functions |-> split_f,
                missing_classes |-> missing_c, missing_functions |-> missing_f]

(***************************************************************************)
(* validate_split_files (lines 257-315)                                    *)
(***************************************************************************)
\* lines 277-279
ReportAfterSyntax(r, sres) ==
    IF ~ sres.all_valid THEN [r EXCEPT !.errors = @ \o sres.errors] ELSE r
\* a pipeline that goes on after a syntax failure
SyntaxAborts_never(sres) == FALSE
SyntaxAborts(sres) == ~ sres.all_valid

\* a report that forgets what the import stage recorded
ReportAfterImports_drop(r, ires) == r
\* lines 286-288
ReportAfterImports(r, ires) ==
    IF ~ ires.all_imports_successful
    THEN [r EXCEPT !.errors = @ \o ires.errors, !.warnings = @ \o ires.warnings]
    ELSE r

\* lines 295-296
ReportAfterFunctionality(r, fres) ==
    IF ~ fres.classes_match THEN [r EXCEPT !.errors = @ \o fres.errors] ELSE r

\* a verdict that looks at the warnings instead of the errors
FinalReport_warnings(r) ==
    LET has_critical_errors == Len(r.warnings) > 0
    IN [r EXCEPT !.success = ~ has_critical_errors,
                 !.summary = IF ~ has_critical_errors THEN "passed" ELSE "failed"]
\* lines 298-308
FinalReport(r) ==
    LET has_critical_errors == Len(r.errors) > 0
    IN [r EXCEPT !.success = ~ has_critical_errors,
                 !.summary = IF ~ has_critical_errors THEN "passed" ELSE "failed"]

\* lines 312-315
ReportAfterException(r) ==
    [r EXCEPT !.errors = Append(@, Msg("system", "validation_system_error", {})),
              !.summary = "system_error"]

Emit == <<input, dirs, loc, wlog>>

\* lines 272-279
SyntaxStage ==
    /\ pc = "v_syntax"
    /\ LET sres == validate_syntax(fs)
       IN /\ vres' = [vres EXCEPT !.syntax = sres]
          /\ report' = ReportAfterSyntax(report, sres)
          /\ pc' = IF SyntaxAborts(sres) THEN "done" ELSE "v_imports"
    /\ stages' = Append(stages, "syntax")
    /\ UNCHANGED <<Emit, fs, sysModules, tmpDirs>>

\* lines 283, 412-415: the temporary directory and the sandbox copy.  When
\* the directory cannot be created the exception reaches line 312; when the
\* copy fails it is caught at line 486
ImportSetup ==
    /\ pc = "v_imports"
    /\ stages' = Append(stages, "imports")
    /\ IF input.tmpFails
       THEN /\ report' = ReportAfterException(report)
            /\ pc' = "done"
            /\ UNCHANGED <<fs, tmpDirs, vres>>
       ELSE IF input.copyFails
       THEN /\ tmpDirs' = tmpDirs \cup {TmpDir}
            /\ vres' = [vres EXCEPT !.imports = import_setup_failed]
            /\ pc' = "v_imp_exit"
            /\ UNCHANGED <<fs, report>>
       ELSE /\ tmpDirs' = tmpDirs \cup {TmpDir}
            /\ fs' = SandboxCopy(fs)
            /\ pc' = "v_imp_load"
            /\ UNCHANGED <<vres, report>>
    /\ UNCHANGED <<Emit, sysModules>>

\* lines 417-474: the package initializer and every module are loaded
ImportLoads ==
    /\ pc = "v_imp_load"
    /\ vres' = [vres EXCEPT !.imports = import_results(Sandbox(fs))]
    /\ sysModules' = ModulesAfterLoads(sysModules, Sandbox(fs))
    /\ pc' = "v_imp_finally"
    /\ UNCHANGED <<Emit, fs, report, stages, tmpDirs>>

\* lines 476-484
ImportFinally ==
    /\ pc = "v_imp_finally"
    /\ sysModules' = ModulesAfterCleanup(sysModules)
    /\ pc' = "v_imp_exit"
    /\ UNCHANGED <<Emit, fs, report, stages, vres, tmpDirs>>

\* the end of the with block (line 412), return (line 490), lines 284-288
ImportExit ==
    /\ pc = "v_imp_exit"
    /\ fs' = WithoutSandbox(fs)
    /\ tmpDirs' = tmpDirs \ {TmpDir}
    /\ report' = ReportAfterImports(report, vres.imports)
    /\ pc' = "v_struct"
    /\ UNCHANGED <<Emit, stages, vres, sysModules>>

\* lines 290-310
StructuralStage ==
    /\ pc = "v_struct"
    /\ LET fres == validate_functionality(fs)
       IN /\ vres' = [vres EXCEPT !.functionality = fres]
          /\ report' = FinalReport(ReportAfterFunctionality(report, fres))
    /\ stages' = Append(stages, "structural")
    /\ pc' = "done"
    /\ UNCHANGED <<Emit, fs, sysModules, tmpDirs>>

(***************************************************************************)
(* The inputs of a run.                                                    *)
(***************************************************************************)
RECURSIVE DeclSeqs(_)
\* the sequences of at most n distinct declaration names
DeclSeqs(n) ==
    IF n = 0 THEN {<<>>}
    ELSE LET shorter == DeclSeqs(n - 1)
         IN shorter \cup {Append(s, x) : <<s, x>> \in
                {<<t, y>> \in shorter \X NamePool : Len(t) = n - 1 /\ y \notin Range(t)}}

\* the sets of at most n elements of S
RECURSIVE UpTo(_, _)
UpTo(S, n) ==
    IF n = 0 THEN {{}}
    ELSE LET smaller == UpTo(S, n - 1)
         IN smaller \cup {T \cup {x} : <<T, x>> \in smaller \X S}

\* who reads what: <<reader, name>>, the reader a declaration or "top"
Edges(decls, hasTop) ==
    (Range(decls) \cup (IF hasTop THEN {"top"} ELSE {})) \X Range(decls)
ReadsOf(edges, reader) == {e[2] : e \in {d \in edges : d[1] = reader}}

\* the text of the input file
SourceItems(doc, imps, decls, edges, hasTop) ==
    doc \o imps
    \o MapSeq(decls, LAMBDA n : DeclItem(n, ReadsOf(edges, n)))
    \o (IF hasTop THEN <<StmtItem(ReadsOf(edges, "top"))>> ELSE <<>>)

\* a config file that holds a mapping: P is a set of <<group, list, name>>
Group(P, g) ==
    [name |-> g,
     classes |-> SetToSeq({q[3] : q \in {r \in P : r[1] = g /\ r[2] = "classes"}}),
     functions |-> SetToSeq({q[3] : q \in {r \in P : r[1] = g /\ r[2] = "functions"}})]
DictConfig(P) ==
    [text |-> "dict",
     modules |-> MapSeq(SetToSeq({q[1] : q \in P}), LAMBDA g : Group(P, g))]
TextConfig(t) == [text |-> t, modules |-> <<>>]
ListName(n) == IF KindOf(n) = "func" THEN "functions" ELSE "classes"
\* every declaration in the one group g
OneGroup(decls, g) == DictConfig({<<g, ListName(n), n>> : n \in Range(decls)})
\* the first declaration in group core, the others in group util
TwoGroups(decls) ==
    DictConfig({<<IF n = decls[1] THEN "core" ELSE "util", ListName(n), n>> : n \in Range(decls)})

StdImport == ImportItem("os", "std")
ImportBlocks ==
    {<<>>, <<StdImport>>, <<ImportItem("csv", "fresh")>>,
     <<ImportItem("nolib", "missing")>>, <<ImportItem("core", "parent")>>}

Scenario(src, cfgPath, cfgFile, outSame, fail, pre) ==
    [src |-> src, cfgPath |-> cfgPath, cfgFile |-> cfgFile, outSame |-> outSame,
     tmpFails |-> fail = "tmp", copyFails |-> fail = "copy", pre |-> pre, stale |-> FALSE]
\* the same run when the split folder already exists and holds Z.py, the
\* unit file of a class Z that an earlier run wrote (makedirs has exist_ok)
WithStale(sc) == [sc EXCEPT !.stale = TRUE]
StaleFile == <<StdImport, DeclItem(GhostName, {})>>
\* the files and the directories that exist when the run starts
InitialFiles(inp) ==
    IF inp.stale
    THEN [p \in {CodePath, FolderPath(GhostName)} |->
            IF p = CodePath THEN inp.src ELSE StaleFile]
    ELSE [p \in {CodePath} |-> inp.src]
InitialDirs(inp) == IF inp.stale THEN {Folder} ELSE {}

PreLoaded == {ExtKey("os")}

Start(sc) ==
    /\ input = [src |-> sc.src, cfgPath |-> sc.cfgPath, cfgFile |-> sc.cfgFile,
                outSame |-> sc.outSame, tmpFails |-> sc.tmpFails,
                copyFails |-> sc.copyFails, pre |-> sc.pre, stale |-> sc.stale]
    /\ fs = InitialFiles(sc)
    /\ sysModules = sc.pre
    /\ pc = "start"
    /\ dirs = InitialDirs(sc)
    /\ loc = [config |-> NoConfig, lines |-> <<>>, class_used |-> <<>>]
    /\ wlog = <<>>
    /\ report = InitialReport
    /\ stages = <<>>
    /\ vres = [syntax |-> NoResults, imports |-> NoResults, functionality |-> NoResults]
    /\ tmpDirs = {}

Docs == {<<>>, <<DocItem("dq3")>>}

\* dependency-rich inputs: default mode and the two plain configs
InitDependencies ==
    \E decls \in DeclSeqs(MaxDecls), hasTop \in BOOLEAN, doc \in Docs,
       cf \in {"none", "one", "two"} :
        \E edges \in UpTo(Edges(decls, hasTop), MaxEdges) :
            Start(Scenario(SourceItems(doc, <<StdImport>>, decls, edges, hasTop),
                           cf # "none",
                           IF cf = "one" THEN OneGroup(decls, "core")
                           ELSE IF cf = "two" THEN TwoGroups(decls)
                           ELSE TextConfig("absent"),
                           FALSE, "none", PreLoaded))

\* config-rich inputs: every way to list at most MaxPlacements names in the
\* groups, and the config files that are not a mapping of groups
Placements(decls) ==
    GroupPool \X {"classes", "functions"} \X (Range(decls) \cup {GhostName})
InitConfigs ==
    \E decls \in DeclSeqs(MaxDecls), hasTop \in BOOLEAN :
        LET src == SourceItems(<<DocItem("dq3")>>, <<StdImport>>, decls, {}, hasTop)
        IN \/ \E t \in {"absent", "badjson", "null", "falsy", "badshape"} :
                Start(Scenario(src, TRUE, TextConfig(t), FALSE, "none", PreLoaded))
           \/ \E P \in UpTo(Placements(decls), MaxPlacements) :
                Start(Scenario(src, TRUE, DictConfig(P), FALSE, "none", PreLoaded))

\* environment-rich inputs: the imports of the source, the output
\* directory, the failures of the sandbox, the modules loaded before
PreStates == {PreLoaded, PreLoaded \cup {<<Base, "~els">>}}
InitEnvironment ==
    \E doc \in Docs, imps \in ImportBlocks, decls \in DeclSeqs(MaxDecls), hasTop \in BOOLEAN,
       cf \in {"none", "core", "my-grp"}, outSame \in BOOLEAN,
       fail \in {"none", "tmp", "copy"}, pre \in PreStates :
        Start(Scenario(SourceItems(doc, imps, decls, {}, hasTop), cf # "none",
                       IF cf = "none" THEN TextConfig("absent") ELSE OneGroup(decls, cf),
                       outSame, fail, pre))

\* an input file that does not parse
InitMalformed ==
    \E cf \in {"none", "core"}, outSame \in BOOLEAN :
        Start(Scenario(<<StdImport, BadItem>>, cf # "none",
                       IF cf = "none" THEN TextConfig("absent") ELSE OneGroup(<<"A">>, cf),
                       outSame, "none", PreLoaded))

\* inputs whose split folder holds a file of an earlier run: default mode,
\* and a config that lists only the first declaration
InitStale ==
    \E decls \in DeclSeqs(MaxDecls), hasTop \in BOOLEAN, cf \in {"none", "first"},
       outSame \in BOOLEAN :
        Start(WithStale(Scenario(
            SourceItems(<<>>, <<StdImport>>, decls, {}, hasTop), cf # "none",
            IF cf = "none" THEN TextConfig("absent")
            ELSE OneGroup(SubSeq(decls, 1, IF decls = <<>> THEN 0 ELSE 1), "core"),
            outSame, "none", PreLoaded)))

\* inputs with a statement that quotes a parent-relative import
InitQuoting ==
    \E imps \in ImportBlocks, decls \in DeclSeqs(MaxDecls), cf \in {"none", "core"} :
        Start(Scenario(imps \o MapSeq(decls, LAMBDA n : DeclItem(n, {})) \o <<QuoteItem>>,
                       cf # "none",
                       IF cf = "none" THEN TextConfig("absent") ELSE OneGroup(decls, cf),
                       FALSE, "none", PreLoaded))

\* inputs whose declarations read some names and assign to others
InitAssignments ==
    \E decls \in DeclSeqs(MaxDecls) :
        \E edges \in UpTo(Edges(decls, FALSE), MaxEdges), st \in UpTo(Edges(decls, FALSE), 1) :
            Start(Scenario(
                <<StdImport>>
                \o MapSeq(decls, LAMBDA n : AssigningDecl(n, ReadsOf(edges, n), ReadsOf(st, n))),
                FALSE, TextConfig("absent"), FALSE, "none", PreLoaded))

\* inputs with a docstring in each way of writing it; the config lists
\* every declaration, or only the first
InitDocstrings ==
    \E form \in {"dq3", "sq3", "q1"}, decls \in DeclSeqs(MaxDecls), hasTop \in BOOLEAN,
       cf \in {"none", "all", "first"} :
        Start(Scenario(
            SourceItems(<<DocItem(form)>>, <<StdImport>>, decls, {}, hasTop), cf # "none",
            IF cf = "none" THEN TextConfig("absent")
            ELSE IF cf = "all" THEN OneGroup(decls, "core")
            ELSE OneGroup(SubSeq(decls, 1, IF decls = <<>> THEN 0 ELSE 1), "core"),
            FALSE, "none", PreLoaded))

Init ==
    \/ InitDependencies \/ InitConfigs \/ InitEnvironment \/ InitMalformed
    \/ InitStale \/ InitQuoting \/ InitAssignments \/ InitDocstrings

Next ==
    \/ ReadConfig
    \/ ParseSource
    \/ Prepare
    \/ WriteResidual
    \/ WriteUnits
    \/ WriteMain
    \/ WriteInit
    \/ WriteInterface
    \/ SyntaxStage
    \/ ImportSetup
    \/ ImportLoads
    \/ ImportFinally
    \/ ImportExit
    \/ StructuralStage

Spec == Init /\ [][Next]_vars

(***************************************************************************)
(* Properties.                                                             *)
(***************************************************************************)
Emitted ==
    pc \in {"v_syntax", "v_imports", "v_imp_load", "v_imp_finally", "v_imp_exit",
            "v_struct", "done"}
ConfigMode == Truthy(loc.config)
OriginalDecls == {loc.lines[i] : i \in {j \in 1..Len(loc.lines) : loc.lines[j].t = "decl"}}
DeclsIn(content) == {content[i] : i \in {j \in 1..Len(content) : content[j].t = "decl"}}
DeclNamesIn(content) == {d.name : d \in DeclsIn(content)}
\* the partition-unit files: the group files, or the class files and functions
UnitStems ==
    IF ConfigMode THEN {g.name : g \in Range(loc.config.modules)}
    ELSE Range(L_class_names) \cup (IF L_functions # <<>> THEN {"functions"} ELSE {})
UnitFile(x) == fs[FolderPath(x)]
GroupNames(g) == Range(g.classes) \cup Range(g.functions)
\* the GroupConfig invariant: every name appears in at most one group
GroupsDisjoint ==
    \A i, j \in 1..Len(loc.config.modules) :
        i # j => GroupNames(loc.config.modules[i]) \cap GroupNames(loc.config.modules[j]) = {}
Done == pc = "done"
ErrorsOf(r) == Range(r.errors)
SyntaxPassed == vres.syntax.ran /\ vres.syntax.all_valid
SyntaxFailed == vres.syntax.ran /\ ~ vres.syntax.all_valid

\* C1: after emission every original top-level class and function is present,
\* as its source slice, in a partition-unit file or in the residual file
C1_Completeness ==
    Emitted =>
        \A d \in OriginalDecls :
            \E x \in UnitStems \cup {Base} : d \in DeclsIn(UnitFile(x))

ImportsFrom(content, y, n) ==
    \E i \in 1..Len(content) :
        /\ content[i].t = "rel" /\ content[i].name = y
        /\ (content[i].names = Star \/ n \in Range(content[i].names))
C3_ImportSoundness ==
    Emitted =>
        \A x, y \in UnitStems : \A a \in DeclsIn(UnitFile(x)), b \in DeclsIn(UnitFile(y)) :
            (x # y /\ b.name \in a.reads) => ImportsFrom(UnitFile(x), y, b.name)

\* C4: when the syntax stage passed and the structural stage finds a missing
\* class or a missing function, the report has an error for it and success
\* is false
C4_MissingIsError ==
    (Done /\ SyntaxPassed /\ vres.functionality.ran) =>
        /\ vres.functionality.missing_classes # {} =>
              /\ ~ report.success
              /\ \E e \in ErrorsOf(report) : e.kind = "missing_classes"
        /\ vres.functionality.missing_functions # {} =>
              /\ ~ report.success
              /\ \E e \in ErrorsOf(report) : e.kind = "missing_functions"

\* C5: in every returned report success is true exactly when the errors list
\* is empty, whatever the warnings list holds
C5_SuccessIffNoErrors == Done => (report.success <=> report.errors = <<>>)
C5_Witness == Done /\ report.warnings # <<>> /\ ~ report.success

\* C6: when a file of the split folder fails the syntax stage, the import and
\* the structural stage never run, the errors name every failing file and
\* success is false
C6_SyntaxFailureAborts ==
    SyntaxFailed =>
        /\ Done
        /\ stages = <<"syntax">>
        /\ ~ vres.imports.ran /\ ~ vres.functionality.ran
        /\ \A x \in vres.syntax.invalid_files :
              \E e \in ErrorsOf(report) : e.stage = "syntax" /\ e.subj = {x}
        /\ ~ report.success
C6_Witness == Done /\ SyntaxFailed /\ vres.syntax.invalid_files # {}

ImportStageReturned == vres.imports.ran /\ pc \in {"v_struct", "done"}
C8_IsolationCleanup ==
    ImportStageReturned =>
        /\ sysModules \subseteq input.pre
        /\ TmpDir \notin tmpDirs
        /\ \A p \in DOMAIN fs : p[1] # TmpDir

\* C9: an input with a syntax error makes write_split_files return before it
\* creates or writes any file or directory
NothingWritten ==
    /\ fs = InitialFiles(input)
    /\ dirs = InitialDirs(input) /\ wlog = <<>>
C9_MalformedSourceWritesNothing ==
    ParseFails(input.src) => (NothingWritten /\ pc \in {"start", "parse", "returned"})
C9_Witness == pc = "returned" /\ ParseFails(input.src) /\ NothingWritten

\* C10: an unreadable or malformed config (missing file, invalid JSON, JSON
\* that is not a mapping of groups) makes write_split_files return before
\* any file is created or written
MalformedConfig ==
    input.cfgPath /\ input.cfgFile.text \in {"absent", "badjson", "null", "falsy", "badshape"}
C10_MalformedConfigWritesNothing == MalformedConfig => NothingWritten

\* the names a config lists, in any list of any group
ConfigNamed == UNION {GroupNames(g) : g \in Range(loc.config.modules)}
Unmentioned == {d \in OriginalDecls : d.name \notin ConfigNamed}
ResidualFile == fs[FolderPath(Base)]

DeclaredMembers(g) ==
    (Range(g.classes) \cap Range(L_class_names))
    \cup (Range(g.functions) \cap Range(L_function_names))
\* the names of group g that the source does not declare in that kind
Undeclared(g) == GroupNames(g) \ DeclaredMembers(g)
WrittenOnce(p) == Cardinality({i \in 1..Len(wlog) : wlog[i] = p}) = 1

\* C12: in config mode a listed name that the source does not declare is
\* skipped: the run does not abort on it, the group's unit file written by
\* the group loop has no declaration for it, and it has the slice of every
\* other member of the group
C12_UndeclaredSkipped ==
    (ConfigMode /\ loc.config.v = "dict") =>
        /\ pc # "crashed"
        /\ \A g \in Range(loc.config.modules) :
              /\ pc = "main" => DeclNamesIn(UnitFile(g.name)) = DeclaredMembers(g)
              /\ (Emitted /\ WrittenOnce(FolderPath(g.name))) =>
                    DeclNamesIn(UnitFile(g.name)) = DeclaredMembers(g)
C12_Witness ==
    /\ Done /\ ConfigMode
    /\ \E g \in Range(loc.config.modules) :
          /\ Undeclared(g) # {} /\ DeclaredMembers(g) # {}
          /\ DeclNamesIn(UnitFile(g.name)) = DeclaredMembers(g)

\* a config file was named and json.load returned a value other than null
ConfigSupplied == input.cfgPath /\ parse_config(input.cfgFile) # NoConfig
ConfigGroupStems == {g.name : g \in Range(loc.config.modules)}
\* the modules only default mode has: one per class, and functions
DefaultOnlyStems == (Range(L_class_names) \cup {"functions"}) \ ConfigGroupStems
EmittedPaths == {p \in DOMAIN fs : p[1] = Folder} \cup {InterfacePath}
IsPerClassUnit(x) ==
    /\ x \in Range(L_class_names) \ ConfigGroupStems
    /\ FolderPath(x) \in DOMAIN fs /\ x \in DeclNamesIn(UnitFile(x))
IsFunctionsUnit(x) ==
    /\ x = "functions" /\ x \notin ConfigGroupStems
    /\ FolderPath(x) \in DOMAIN fs /\ DeclsIn(UnitFile(x)) # {}

\* C13: when a config was supplied and parsed, no per-class unit file and no
\* shared functions file is written, and no emitted file imports from a
\* per-class module or from the functions module
C13_DefaultModeBypassed ==
    (Emitted /\ ConfigSupplied) =>
        /\ \A x \in FolderFiles(fs) : ~ IsPerClassUnit(x) /\ ~ IsFunctionsUnit(x)
        /\ \A p \in EmittedPaths : \A i \in 1..Len(fs[p]) :
              fs[p][i].t \in {"rel", "iface"} => fs[p][i].name \notin DefaultOnlyStems

InterfaceFile == fs[InterfacePath]
\* the names the interface file imports, and the names of its __all__
InterfaceImported ==
    UNION {Range(InterfaceFile[i].names) :
           i \in {j \in 1..Len(InterfaceFile) : InterfaceFile[j].t = "iface"}}
InterfaceExported ==
    UNION {Range(InterfaceFile[i].names) :
           i \in {j \in 1..Len(InterfaceFile) : InterfaceFile[j].t = "all"}}
OriginalNames == {d.name : d \in OriginalDecls}

\* C14: in both modes the interface file imports every original top-level
\* class and function name from the package, and its __all__ holds exactly
\* the names the file imports
C14_InterfaceComplete ==
    Emitted =>
        /\ OriginalNames \subseteq InterfaceImported
        /\ InterfaceExported = InterfaceImported

\* the result of loading file x of the sandbox, as the import stage loads it
LoadOf(sb, x) == IF x = "__init__" THEN LoadInit(sb) ELSE LoadFile(sb, x)
ImportsLoaded == pc = "v_imp_finally"

\* C15: for the package initializer and for every module, a load failure is
\* a warning only when it is an expected relative-import failure; every other
\* load failure is an error of the stage and makes it unsuccessful
C15_OtherFailuresAreErrors ==
    ImportsLoaded =>
        \A x \in DOMAIN Sandbox(fs) :
            LET o == LoadOf(Sandbox(fs), x)
            IN /\ o.res \notin {"ok", "RelImportError"} =>
                    /\ \E e \in Range(vres.imports.errors) : e.subj = {x}
                    /\ ~ vres.imports.all_imports_successful
               /\ (\E w \in Range(vres.imports.warnings) : w.subj = {x}) =>
                    o.res = "RelImportError"

\* C16: every warning that the import stage or the structural stage recorded
\* is in the warnings of the returned report
C16_WarningsReported ==
    Done =>
        /\ vres.imports.ran => Range(vres.imports.warnings) \subseteq Range(report.warnings)
        /\ vres.functionality.ran =>
              Range(vres.functionality.warnings) \subseteq Range(report.warnings)

ExtraClasses == vres.functionality.split_classes \ vres.functionality.original_classes
ExtraFunctions == vres.functionality.split_functions \ vres.functionality.original_functions

\* C17: in the structural stage, whenever the emitted names of a kind that
\* are not original names are a non-empty set, whatever the sizes of the two
\* sets and whether or not names are missing, a warning lists them and no
\* error is recorded for them
C17_ExtraIsWarning ==
    vres.functionality.ran =>
        /\ ExtraClasses # {} =>
              \E w \in Range(vres.functionality.warnings) :
                  w.kind = "extra_classes" /\ w.subj = ExtraClasses
        /\ ExtraFunctions # {} =>
              \E w \in Range(vres.functionality.warnings) :
                  w.kind = "extra_functions" /\ w.subj = ExtraFunctions
        /\ \A e \in Range(vres.functionality.errors) :
              e.kind \in {"missing_classes", "missing_functions", "original_unparsable"}

\* an import statement that leaves the package through a parent-relative path
IsParentImport(it) == it.t = "import" /\ it.kind = "parent"
SandboxReady == pc = "v_imp_load"
Validating ==
    pc \in {"v_syntax", "v_imports", "v_imp_load", "v_imp_finally", "v_imp_exit", "v_struct"}
\* a line of a sandbox copy differs from the emitted line exactly when the
\* emitted line is a parent-relative import
OnlyEscapesRewritten ==
    SandboxReady =>
        \A x \in FolderFiles(fs) : \A i \in 1..Len(fs[FolderPath(x)]) :
            (fs[SandboxPath(x)][i] # fs[FolderPath(x)][i]) <=> IsParentImport(fs[FolderPath(x)][i])
\* no step of validation changes a file outside the sandbox
EmittedFilesKept == Validating => WithoutSandbox(fs') = WithoutSandbox(fs)

\* C18: the sandbox rewrite changes a line of a copied file if and only if
\* the line is an import that escapes the package through a parent-relative
\* path, and validation never modifies the emitted files outside the sandbox
C18_OnlyEscapesRewritten == [] OnlyEscapesRewritten /\ [][EmittedFilesKept]_vars

\* C19: every report that validate_split_files returns has a non-empty
\* summary next to its errors and warnings: when all stages pass, when a
\* stage records errors, when the syntax stage aborts and when an exception
\* is caught
C19_SummaryAlways == Done => report.summary # ""

\* C20: the structural stage compares against the declarations that the input
\* file had when the run started, also when output_dir is the directory of
\* the input file
C20_ComparesWithOriginal ==
    vres.functionality.ran =>
        /\ vres.functionality.original_classes = Range(NamesOf(TopClasses(input.src)))
        /\ vres.functionality.original_functions = Range(NamesOf(TopFunctions(input.src)))

\* the relative imports of a file: <<module, set of names>>
RelImportsOf(content) ==
    {<<content[i].name, Range(content[i].names)>> :
     i \in {j \in 1..Len(content) : content[j].t = "rel"}}
ClassDecls == {d \in OriginalDecls : d.kind = "class"}
FunctionDecls == {d \in OriginalDecls : d.kind = "func"}
ClassNames == {d.name : d \in ClassDecls}
FunctionNames == {d.name : d \in FunctionDecls}
\* the imports a class unit needs: each other class it reads, from the unit
\* of that class, and the functions it reads, from the functions unit
NeededByClass(d) ==
    {<<c, {c}>> : c \in (d.reads \cap ClassNames) \ {d.name}}
    \cup (IF d.reads \cap FunctionNames # {}
          THEN {<<"functions", d.reads \cap FunctionNames>>} ELSE {})
NeededByFunctions ==
    {<<c, {c}>> : c \in UNION {d.reads \cap ClassNames : d \in FunctionDecls}}

\* C21: in default mode every class is in its own unit file named after it,
\* with exactly the imports of its buckets; all functions are in the one
\* functions unit, which exists only when there are functions and imports
\* exactly the classes that a function reads
C21_DefaultLayout ==
    (Emitted /\ ~ ConfigMode) =>
        /\ \A d \in ClassDecls :
              /\ FolderPath(d.name) \in DOMAIN fs
              /\ DeclsIn(UnitFile(d.name)) = {d}
              /\ RelImportsOf(UnitFile(d.name)) = NeededByClass(d)
        /\ (FunctionDecls # {}) <=> (FolderPath("functions") \in DOMAIN fs)
        /\ FunctionDecls # {} =>
              /\ DeclsIn(UnitFile("functions")) = FunctionDecls
              /\ RelImportsOf(UnitFile("functions")) = NeededByFunctions

Analyzed == loc.lines # <<>>
\* the top-level names with a Name node in Load context inside declaration d
ReadInside(d) == {n \in ClassNames \cup FunctionNames : <<n, "Load">> \in NameNodes(d)}

\* C22: the class bucket of a class C never holds C, and a top-level name is
\* in the buckets of C exactly when it names another class or a function and
\* is read inside C; a name that is only assigned inside C is not counted
C22_BucketsAreReads ==
    Analyzed =>
        \A d \in ClassDecls :
            /\ DOMAIN loc.class_used = ClassNames
            /\ d.name \notin loc.class_used[d.name].uc
            /\ loc.class_used[d.name].uc = (ReadInside(d) \cap ClassNames) \ {d.name}
            /\ loc.class_used[d.name].uf = ReadInside(d) \cap FunctionNames
C22_Witness ==
    /\ Done
    /\ \E d \in ClassDecls :
          /\ d.stores \ d.reads # {}
          /\ loc.class_used[d.name].uc \cup loc.class_used[d.name].uf # {}

\* the position of the declaration named n in the original file
PosInSource(n) == CHOOSE i \in 1..Len(loc.lines) : loc.lines[i].t = "decl" /\ loc.lines[i].name = n
InSourceOrder(content) ==
    \A i, j \in 1..Len(content) :
        (i < j /\ content[i].t = "decl" /\ content[j].t = "decl"
         /\ content[i] \in OriginalDecls /\ content[j] \in OriginalDecls)
            => PosInSource(content[i].name) < PosInSource(content[j].name)

\* C23: in every emitted partition unit, in default mode and in config mode,
\* the slices of the member declarations are in the order in which the
\* declarations occur in the original file, whatever the order of the config
C23_OriginalOrder ==
    Emitted => \A x \in UnitStems : FolderPath(x) \in DOMAIN fs => InSourceOrder(UnitFile(x))

\* a leftover top-level statement: neither a declaration nor an import, and
\* not the docstring
Leftover(it) == it.t = "stmt"
WritesOf(p) == Cardinality({i \in 1..Len(wlog) : wlog[i] = p})
\* main.py was written as the main file, not only as the unit of a class or
\* of a group named main
MainFileWritten == WritesOf(FolderPath("main")) > (IF "main" \in UnitStems THEN 1 ELSE 0)

\* C24: the main file is written if and only if the source has a leftover
\* top-level statement; imports, a docstring and declarations alone produce
\* no main file
C24_MainIffLeftover ==
    Emitted => (MainFileWritten <=> \E i \in 1..Len(loc.lines) : Leftover(loc.lines[i]))

ResidualWritten == pc = "units"
SourceDocstring == IF input.src # <<>> /\ input.src[1].t = "doc" THEN <<input.src[1]>> ELSE <<>>
NoDeclRemains == DeclsIn(ResidualFile) = {}

C26_InputUntouched == CodePath \in DOMAIN fs /\ fs[CodePath] = input.src

\* C27: when the import stage has returned, every name that was in
\* sys.modules before the stage is still registered: the cleanup removes
\* only names the stage added
C27_PreexistingModulesKept == ImportStageReturned => input.pre \subseteq sysModules

\* C28: within one run no output path is written twice: no unit file, main
\* file, residual file or package initializer is written over by a later
\* write of the same run
C28_NoOverwrite == \A i, j \in 1..Len(wlog) : wlog[i] = wlog[j] => i = j

\* the files the run emitted: those of the package and the interface file
RunEmitted == {p \in DOMAIN fs : \E i \in 1..Len(wlog) : wlog[i] = p}
\* a synthesized import names a module file of the package that the run
\* emitted, and only symbols that this file declares
ImportResolves(it) ==
    /\ FolderPath(it.name) \in RunEmitted
    /\ it.names # Star => Range(it.names) \subseteq DeclNamesIn(fs[FolderPath(it.name)])

\* C29: every synthesized relative import of an emitted file of the package
\* and of the interface file names a module file that the same run emitted
\* and a symbol that this module file declares, in both modes
C29_ImportsResolve ==
    Emitted =>
        \A p \in RunEmitted : \A i \in 1..Len(fs[p]) :
            fs[p][i].t \in {"rel", "iface"} => ImportResolves(fs[p][i])

\* the unit files that the unit file x imports from
ImportedUnits(x) ==
    IF FolderPath(x) \in DOMAIN fs
    THEN {m[1] : m \in RelImportsOf(UnitFile(x))} \cap UnitStems
    ELSE {}
RECURSIVE ReachableUnits(_, _)
\* the units reached from the set S in at most n further imports
ReachableUnits(S, n) ==
    IF n = 0 THEN S
    ELSE ReachableUnits(S \cup UNION {ImportedUnits(y) : y \in S}, n - 1)

\* C30: in default mode the synthesized relative imports among the class
\* units and the functions unit form no cycle, whatever the dependencies of
\* the source are
C30_ImportsAcyclic ==
    (Emitted /\ ~ ConfigMode) =>
        \A x \in UnitStems :
            x \notin ReachableUnits(ImportedUnits(x), Cardinality(UnitStems))

====
